---------------------------- MODULE Spec2Model ----------------------------
(***************************************************************************)
(* MyMediaTrek backend (src/app.py): the admin-gated registration, login,  *)
(* and the token-protected, per-user media list (list/search, create,      *)
(* update, delete) over a PostgreSQL store.                                *)
(*                                                                         *)
(* Every request runs on its own connection and transaction (psycopg2:     *)
(* the transaction opens at the first execute; READ COMMITTED), so a       *)
(* handler is modelled as one step per store round trip that can           *)
(* interleave with other requests: the statements of a handler up to its   *)
(* first write, its later writes, and its commit.                          *)
(***************************************************************************)
EXTENDS Integers, Sequences, FiniteSets, TLC

VARIABLES
    users,        \* committed rows of table users
    media_items,  \* committed rows of table media_items
    user_seq,     \* last value drawn from the user_id sequence
    media_seq,    \* last value drawn from the media_id sequence
    clock,        \* the store's clock (source of added_date)
    tokens,       \* access tokens issued so far (held by clients)
    req,          \* per request slot: the request being handled
    pc,           \* per request slot: control point of its handler
    txn,          \* per request slot: the uncommitted write of its transaction
    finished      \* the exchange the last step completed: request, response,
                  \* and the state its handler left its connection in

vars == <<users, media_items, user_seq, media_seq, clock, tokens,
          req, pc, txn, finished>>

-----------------------------------------------------------------------------
(* Bounds of the model *)

MaxUserId == 3
MaxMediaId == 2
MaxClock == 1
MaxQueryLen == 1

Reqs == {1, 2}

-----------------------------------------------------------------------------
(* Configuration and request values *)

ADMIN_MASTER_KEY == "admin-key"

AdminKeys == {ADMIN_MASTER_KEY, "wrong-key"}

\* a JSON value that is not text (a number): truthy, but it has no encode()
JsonNumber == "<json number 12345>"

Usernames == {"alice", "bob"}
UsernameInputs == Usernames \cup {""}
PasswordInputs == {"pw1", "pw2", "", JsonNumber}

Salts == {"s1", "s2"}

Truthy(v) == v # ""

IsText(v) == v # JsonNumber

\* werkzeug.security.generate_password_hash: salted one-way hash of a text
generate_password_hash(password, salt) ==
    [method |-> "pbkdf2", salt |-> salt, hashval |-> <<"H", salt, password>>]

\* werkzeug.security.check_password_hash: re-hash with the stored salt
check_password_hash(pwhash, password) ==
    pwhash.hashval = <<"H", pwhash.salt, password>>

\* flask_jwt_extended.create_access_token / jwt_required / get_jwt_identity
create_access_token(identity) == [sub |-> identity, sig |-> "signed"]

NoToken == [sub |-> 0, sig |-> "missing"]

\* a token for user 1 that the signing key does not verify
ForgedTokens == {[sub |-> 1, sig |-> "forged"]}

jwt_required(token) == token.sig = "signed"

get_jwt_identity(token) == token.sub


-----------------------------------------------------------------------------
(* Requests, responses and the per-request transaction *)

None == "None"

NoData == [title |-> <<>>, media_type |-> "", status |-> "",
           progress |-> None, rating |-> None, comment |-> None]

\* fault: the step of the handler at which the store raises, if any
NoRequest == [op |-> "none", key |-> "", username |-> "", password |-> "",
              token |-> NoToken, q |-> <<>>, media_id |-> 0, data |-> NoData,
              fault |-> "none"]

Response(code, msg) ==
    [code |-> code, msg |-> msg, token |-> NoToken, username |-> "",
     data |-> <<>>, media_id |-> 0]

NoResponse == Response(0, "")

\* the exception left the view function: the framework answers 500
Uncaught == Response(500, "Internal Server Error")

NoRow == [none |-> TRUE]

\* kind: the write; row: the row it inserts or the key it names; rows: the
\* committed rows an UPDATE or DELETE matched and holds locked
NoTxn == [kind |-> "none", row |-> NoRow, rows |-> {}]

NoExchange == [req |-> NoRequest, resp |-> NoResponse, conn |-> "none"]

\* the handler returns (or raises) with response rs, its connection left in
\* state c: "none" (never opened), "closed", or "open" (not released)
Finish(r, rq, rs, c) ==
    /\ req' = [req EXCEPT ![r] = NoRequest]
    /\ pc' = [pc EXCEPT ![r] = "idle"]
    /\ txn' = [txn EXCEPT ![r] = NoTxn]
    /\ finished' = [req |-> rq, resp |-> rs, conn |-> c]

\* the handler has executed a statement and goes on at control point p, its
\* connection open and its transaction holding the uncommitted write t
Continue(r, rq, p, t) ==
    /\ req' = [req EXCEPT ![r] = rq]
    /\ pc' = [pc EXCEPT ![r] = p]
    /\ txn' = [txn EXCEPT ![r] = t]
    /\ finished' = NoExchange

Free(r) == pc[r] = "idle" /\ finished = NoExchange


-----------------------------------------------------------------------------
(* Identity service *)

\* rows of users a statement on any connection sees (READ COMMITTED)
UsersNamed(username) == {u \in users : u.username = username}

\* another transaction holds an uncommitted insert of this username: the
\* unique index makes this INSERT wait for it to commit or roll back
InsertUserBlocked(r, username) ==
    \E o \in Reqs \ {r} :
        txn[o].kind = "insert_user" /\ txn[o].row.username = username

\* users.username is unique at the store: an INSERT of a username a committed
\* row has raises psycopg2.IntegrityError
UniqueViolation(username) == UsersNamed(username) # {}

\* the values the store generates for users.user_id and media_items.media_id
NextUserId == user_seq + 1

NextMediaId == media_seq + 1

\* the checks of the request before the store is touched (app.py 55-64)
RegisterPrecheckEmptyFirst(key, username, password) ==
    IF ~Truthy(username) \/ ~Truthy(password) THEN 400
    ELSE IF key # ADMIN_MASTER_KEY THEN 403
    ELSE 0

RegisterPrecheck(key, username, password) ==
    IF key # ADMIN_MASTER_KEY THEN 403
    ELSE IF ~Truthy(username) \/ ~Truthy(password) THEN 400
    ELSE 0

\* POST /api/admin/register up to the INSERT (app.py 53-76)
admin_register(r, key, username, password, fault) ==
    LET rq == [NoRequest EXCEPT !.op = "register", !.key = key,
                                !.username = username, !.password = password,
                                !.fault = fault]
        pre == RegisterPrecheck(key, username, password)
    IN
    /\ Free(r)
    /\ UNCHANGED <<users, media_items, media_seq, clock, tokens>>
    /\ IF pre = 403
       THEN /\ Finish(r, rq, Response(403, "Forbidden"), "none")
            /\ UNCHANGED user_seq
       ELSE IF pre = 400
       THEN /\ Finish(r, rq, Response(400, "empty username or password"), "none")
            /\ UNCHANGED user_seq
       ELSE IF fault = "connect"
       THEN /\ Finish(r, rq, Response(500, "DB Error"), "none")
            /\ UNCHANGED user_seq
       ELSE IF fault = "cursor" \/ ~IsText(password)
       THEN \* conn.cursor() or generate_password_hash raises before the try
            /\ Finish(r, rq, Uncaught, "open")
            /\ UNCHANGED user_seq
       ELSE IF fault = "execute"
       THEN /\ Finish(r, rq, Response(500, "error"), "closed")
            /\ UNCHANGED user_seq
       ELSE /\ user_seq < MaxUserId
            /\ ~InsertUserBlocked(r, username)
            /\ user_seq' = NextUserId
            /\ IF UniqueViolation(username)
               THEN \* psycopg2.IntegrityError: rollback, 409
                    Finish(r, rq, Response(409, "username exists"), "closed")
               ELSE \E salt \in Salts :
                    Continue(r, rq, "commit",
                        [kind |-> "insert_user",
                         row |-> [user_id |-> NextUserId,
                                  username |-> username,
                                  password_hash |->
                                      generate_password_hash(password, salt)],
                         rows |-> {}])

\* conn.commit() of the registration and its response (app.py 77-87)
admin_register_commit_skipped(r, fault) ==
    /\ finished = NoExchange
    /\ pc[r] = "commit"
    /\ req[r].op = "register"
    /\ UNCHANGED <<users, media_items, user_seq, media_seq, clock, tokens>>
    /\ IF fault = "commit"
       THEN Finish(r, [req[r] EXCEPT !.fault = fault],
                   Response(500, "error"), "closed")
       ELSE Finish(r, req[r], Response(201, "created"), "closed")

admin_register_commit(r, fault) ==
    /\ finished = NoExchange
    /\ pc[r] = "commit"
    /\ req[r].op = "register"
    /\ UNCHANGED <<media_items, user_seq, media_seq, clock, tokens>>
    /\ IF fault = "commit"
       THEN /\ Finish(r, [req[r] EXCEPT !.fault = fault],
                      Response(500, "error"), "closed")
            /\ UNCHANGED users
       ELSE /\ users' = users \cup {txn[r].row}
            /\ Finish(r, req[r], Response(201, "created"), "closed")

\* the credential test of login, for a row found (app.py 105)
AuthenticatedAnyPassword(user, password) == TRUE

Authenticated(user, password) ==
    check_password_hash(user.password_hash, password)

\* POST /api/login (app.py 91-113)
login(r, username, password, fault) ==
    LET rq == [NoRequest EXCEPT !.op = "login", !.username = username,
                                !.password = password, !.fault = fault]
    IN
    /\ Free(r)
    /\ UNCHANGED <<users, media_items, user_seq, media_seq, clock>>
    /\ IF fault = "connect"
       THEN /\ Finish(r, rq, Response(500, "DB Error"), "none")
            /\ UNCHANGED tokens
       ELSE IF fault = "cursor"
       THEN /\ Finish(r, rq, Uncaught, "open")
            /\ UNCHANGED tokens
       ELSE IF fault = "execute"
       THEN \* no except clause: finally closes, the exception goes on
            /\ Finish(r, rq, Uncaught, "closed")
            /\ UNCHANGED tokens
       ELSE IF UsersNamed(username) = {}
       THEN /\ Finish(r, rq, Response(401, "bad username or password"), "closed")
            /\ UNCHANGED tokens
       ELSE \E user \in UsersNamed(username) :
             IF ~IsText(password)
             THEN /\ Finish(r, rq, Uncaught, "closed")
                  /\ UNCHANGED tokens
             ELSE IF Authenticated(user, password)
             THEN LET token == create_access_token(user.user_id) IN
                  /\ tokens' = tokens \cup {token}
                  /\ Finish(r, rq,
                        [Response(200, "") EXCEPT !.token = token,
                                                  !.username = user.username],
                        "closed")
             ELSE /\ Finish(r, rq, Response(401, "bad username or password"),
                            "closed")
                  /\ UNCHANGED tokens

-----------------------------------------------------------------------------
(* Media catalog service: the store's operators *)

Lower(c) == IF c = "A" THEN "a" ELSE IF c = "B" THEN "b" ELSE c

LowerSeq(s) == [i \in 1..Len(s) |-> Lower(s[i])]

\* PostgreSQL LIKE: % matches any run of characters, _ any one character,
\* backslash makes the next pattern character literal
RECURSIVE Like(_, _)
Like(s, p) ==
    IF p = <<>> THEN s = <<>>
    ELSE IF Head(p) = "%"
    THEN Like(s, Tail(p)) \/ (s # <<>> /\ Like(Tail(s), p))
    ELSE IF Head(p) = "_"
    THEN s # <<>> /\ Like(Tail(s), Tail(p))
    ELSE IF Head(p) = "\\"
    THEN /\ Len(p) >= 2
         /\ s # <<>>
         /\ Head(s) = p[2]
         /\ Like(Tail(s), Tail(Tail(p)))
    ELSE s # <<>> /\ Head(s) = Head(p) /\ Like(Tail(s), Tail(p))

\* title ILIKE pattern
ILike(title, pattern) == Like(LowerSeq(title), LowerSeq(pattern))

\* the rows the list query selects (app.py 128-133)
ListRows(current_user_id, q) ==
    {m \in media_items :
        /\ m.user_id = current_user_id
        /\ (q # <<>> => ILike(m.title, <<"%">> \o q \o <<"%">>))}

\* ORDER BY added_date DESC: any order of the rows that never ascends
OrderByAddedDateDesc(rows) ==
    {s \in [1..Cardinality(rows) -> rows] :
        /\ \A i, j \in 1..Cardinality(rows) : i # j => s[i] # s[j]
        /\ \A i, j \in 1..Cardinality(rows) :
              i < j => s[i].added_date >= s[j].added_date}

\* the duplicate pre-check of create (app.py 145-147)
TitleRowsAnyUser(title, current_user_id) ==
    {m \in media_items : m.title = title}

TitleRows(title, current_user_id) ==
    {m \in media_items : m.title = title /\ m.user_id = current_user_id}

\* WHERE media_id = %s AND user_id = %s of DELETE and UPDATE (app.py 182, 194)
ItemRowsAnyUser(media_id, current_user_id) ==
    {m \in media_items : m.media_id = media_id}

ItemRows(media_id, current_user_id) ==
    {m \in media_items : m.media_id = media_id /\ m.user_id = current_user_id}

\* the row INSERT INTO media_items builds (app.py 150-157)
MediaRow(media_id, current_user_id, data, added_date) ==
    [media_id |-> media_id, user_id |-> current_user_id,
     title |-> data.title, media_type |-> data.media_type,
     status |-> data.status, current_progress |-> data.progress,
     rating |-> data.rating, comment |-> data.comment,
     added_date |-> added_date]

\* the row UPDATE media_items SET ... leaves (app.py 191-200)
UpdatedRow(m, data) ==
    [m EXCEPT !.title = data.title, !.media_type = data.media_type,
              !.status = data.status, !.current_progress = data.progress,
              !.rating = data.rating, !.comment = data.comment]

\* another transaction holds the row lock of an uncommitted UPDATE or DELETE
RowLocked(r, media_id) ==
    \E o \in Reqs \ {r} :
        /\ txn[o].kind \in {"delete", "update"}
        /\ \E m \in txn[o].rows : m.media_id = media_id

\* the access guard and the statements before the try (app.py 117-122, 172-177)
Guard(token, fault) ==
    IF ~jwt_required(token) THEN "401"
    ELSE IF fault = "connect" THEN "db_error"
    ELSE IF fault = "cursor" THEN "uncaught"
    ELSE "try"

GuardFinish(r, rq, g) ==
    IF g = "401" THEN Finish(r, rq, Response(401, "Unauthorized"), "none")
    ELSE IF g = "db_error" THEN Finish(r, rq, Response(500, "DB Error"), "none")
    ELSE Finish(r, rq, Uncaught, "open")

\* except Exception: rollback, 500; finally: close (app.py 163-168, 207-212)
OnException(r, fault) ==
    Finish(r, [req[r] EXCEPT !.fault = fault], Response(500, "error"), "closed")

\* the committed rows after cursor.execute of the INSERT: the row stays in
\* the transaction until conn.commit() (app.py 158-160)
ExecuteInsertAutocommit(row) == media_items \cup {row}

ExecuteInsert(row) == media_items

\* the response of delete/update after its commit (app.py 185-187, 203-205)
NotFound(method) ==
    Response(404, IF method = "delete"
                  THEN "delete failed (not found or no permission)"
                  ELSE "update failed (not found or no permission)")

ItemResponseNoCheck(method, rowcount) == Response(200, "success")

ItemResponse(method, rowcount) ==
    IF rowcount = 0 THEN NotFound(method) ELSE Response(200, "success")

-----------------------------------------------------------------------------
(* Media catalog service: the handlers *)

\* GET /api/media (app.py 118-139)
media_api_get(r, token, q, fault) ==
    LET rq == [NoRequest EXCEPT !.op = "list", !.token = token, !.q = q,
                                !.fault = fault]
        current_user_id == get_jwt_identity(token)
    IN
    /\ Free(r)
    /\ UNCHANGED <<users, media_items, user_seq, media_seq, clock, tokens>>
    /\ IF Guard(token, fault) # "try"
       THEN GuardFinish(r, rq, Guard(token, fault))
       ELSE IF fault = "execute"
       THEN Finish(r, rq, Response(500, "error"), "closed")
       ELSE \E items \in OrderByAddedDateDesc(ListRows(current_user_id, q)) :
               Finish(r, rq, [Response(200, "success") EXCEPT !.data = items],
                      "closed")

\* POST /api/media up to the duplicate check (app.py 118-148)
media_api_post(r, token, data, fault) ==
    LET rq == [NoRequest EXCEPT !.op = "create", !.token = token,
                                !.data = data, !.fault = fault]
        current_user_id == get_jwt_identity(token)
    IN
    /\ Free(r)
    /\ UNCHANGED <<users, media_items, user_seq, media_seq, clock, tokens>>
    /\ IF Guard(token, fault) # "try"
       THEN GuardFinish(r, rq, Guard(token, fault))
       ELSE IF fault = "execute"
       THEN Finish(r, rq, Response(500, "error"), "closed")
       ELSE IF TitleRows(data.title, current_user_id) # {}
       THEN Finish(r, rq, Response(409, "already in your list"), "closed")
       ELSE Continue(r, rq, "insert", NoTxn)

\* the INSERT of create (app.py 150-159)
media_api_insert(r, fault) ==
    /\ finished = NoExchange
    /\ pc[r] = "insert"
    /\ UNCHANGED <<users, user_seq, clock, tokens>>
    /\ IF fault = "execute"
       THEN /\ OnException(r, fault)
            /\ UNCHANGED <<media_items, media_seq>>
       ELSE LET row == MediaRow(NextMediaId, get_jwt_identity(req[r].token),
                                req[r].data, clock)
            IN
            /\ media_seq < MaxMediaId
            /\ media_seq' = NextMediaId
            /\ media_items' = ExecuteInsert(row)
            /\ Continue(r, req[r], "commit",
                  [kind |-> "insert_media", row |-> row, rows |-> {}])

\* conn.commit() of create and its response (app.py 160-168)
media_api_commit(r, fault) ==
    /\ finished = NoExchange
    /\ pc[r] = "commit"
    /\ req[r].op = "create"
    /\ UNCHANGED <<users, user_seq, media_seq, clock, tokens>>
    /\ IF fault = "commit"
       THEN /\ OnException(r, fault)
            /\ UNCHANGED media_items
       ELSE /\ media_items' = media_items \cup {txn[r].row}
            /\ Finish(r, req[r],
                  [Response(201, "success") EXCEPT
                      !.media_id = txn[r].row.media_id],
                  "closed")

\* DELETE or PUT /api/media/<media_id> up to its statement (app.py 173-201)
item_api(r, token, method, media_id, data, fault) ==
    LET rq == [NoRequest EXCEPT !.op = method, !.token = token,
                                !.media_id = media_id, !.data = data,
                                !.fault = fault]
        current_user_id == get_jwt_identity(token)
        rows == ItemRows(media_id, current_user_id)
    IN
    /\ Free(r)
    /\ UNCHANGED <<users, media_items, user_seq, media_seq, clock, tokens>>
    /\ IF Guard(token, fault) # "try"
       THEN GuardFinish(r, rq, Guard(token, fault))
       ELSE IF fault = "execute"
       THEN Finish(r, rq, Response(500, "error"), "closed")
       ELSE /\ rows # {} => ~RowLocked(r, media_id)
            /\ Continue(r, rq, "commit",
                  [kind |-> method,
                   row |-> [media_id |-> media_id, user_id |-> current_user_id],
                   rows |-> rows])

\* the store state a committed DELETE or UPDATE leaves
Applied(t, data) ==
    IF t.kind = "delete"
    THEN media_items \ t.rows
    ELSE (media_items \ t.rows) \cup {UpdatedRow(m, data) : m \in t.rows}

\* conn.commit() of delete/update and the response (app.py 184-187, 202-212)
item_api_commit(r, fault) ==
    /\ finished = NoExchange
    /\ pc[r] = "commit"
    /\ req[r].op \in {"delete", "update"}
    /\ UNCHANGED <<users, user_seq, media_seq, clock, tokens>>
    /\ IF fault = "commit"
       THEN /\ OnException(r, fault)
            /\ UNCHANGED media_items
       ELSE /\ media_items' = Applied(txn[r], req[r].data)
            /\ Finish(r, req[r], ItemResponse(req[r].op, Cardinality(txn[r].rows)),
                      "closed")

\* the framework sends the response of the finished exchange
Respond ==
    /\ finished # NoExchange
    /\ finished' = NoExchange
    /\ UNCHANGED <<users, media_items, user_seq, media_seq, clock, tokens,
                   req, pc, txn>>

\* time passes at the store
Tick ==
    /\ finished = NoExchange
    /\ clock < MaxClock
    /\ clock' = clock + 1
    /\ UNCHANGED <<users, media_items, user_seq, media_seq, tokens,
                   req, pc, txn, finished>>

-----------------------------------------------------------------------------
(* Specifications *)

\* a request is taken up by the first free worker
Worker(r) == Free(r) /\ \A o \in Reqs : Free(o) => r <= o

Faults == {"none", "connect", "cursor", "execute"}

CommitFaults == {"none", "commit"}

EmptyStore ==
    /\ users = {}
    /\ media_items = {}
    /\ user_seq = 0
    /\ media_seq = 0
    /\ clock = 0
    /\ tokens = {}

Idle ==
    /\ req = [r \in Reqs |-> NoRequest]
    /\ pc = [r \in Reqs |-> "idle"]
    /\ txn = [r \in Reqs |-> NoTxn]
    /\ finished = NoExchange

Init == EmptyStore /\ Idle

\* the identity service, requests handled concurrently
Next ==
    \/ Respond
    \/ \E r \in Reqs :
        \/ /\ Worker(r)
           /\ \E key \in AdminKeys, username \in UsernameInputs,
                 password \in PasswordInputs, fault \in Faults :
                   admin_register(r, key, username, password, fault)
        \/ \E fault \in CommitFaults : admin_register_commit(r, fault)
        \/ /\ Worker(r)
           /\ \E username \in UsernameInputs, password \in PasswordInputs,
                 fault \in Faults :
                   login(r, username, password, fault)

Spec == Init /\ [][Next]_vars

\* alice and bob are registered and have logged in
Alice == [user_id |-> 1, username |-> "alice",
          password_hash |-> generate_password_hash("pw1", "s1")]

Bob == [user_id |-> 2, username |-> "bob",
        password_hash |-> generate_password_hash("pw2", "s2")]

LoggedIn ==
    /\ users = {Alice, Bob}
    /\ user_seq = 2
    /\ tokens = {create_access_token(1), create_access_token(2)}
    /\ media_items = {}
    /\ media_seq = 0
    /\ clock = 0

MediaInit == LoggedIn /\ Idle

TokenInputs == tokens \cup {NoToken} \cup ForgedTokens

Data(title, status, progress) ==
    [title |-> title, media_type |-> "book", status |-> status,
     progress |-> progress, rating |-> None, comment |-> None]

Titles == {<<"a">>, <<"b">>}

CreateData == {Data(t, "reading", None) : t \in Titles}

UpdateData == {Data(<<"a">>, "done", "12")}

MediaTokens == tokens \cup ForgedTokens

MediaFaults == {"none", "execute"}

MediaIds == 1..MaxMediaId

\* the media catalog service, requests handled concurrently
MediaNext ==
    \/ Respond
    \/ \E r \in Reqs :
        \/ /\ Worker(r)
           /\ \E token \in MediaTokens, fault \in MediaFaults :
                 media_api_get(r, token, <<"%">>, fault)
        \/ /\ Worker(r)
           /\ \E token \in MediaTokens, data \in CreateData,
                 fault \in MediaFaults :
                   media_api_post(r, token, data, fault)
        \/ media_api_insert(r, "none")
        \/ \E fault \in CommitFaults : media_api_commit(r, fault)
        \/ /\ Worker(r)
           /\ \E token \in MediaTokens, media_id \in MediaIds,
                 fault \in MediaFaults :
                   \/ item_api(r, token, "delete", media_id, NoData, fault)
                   \/ \E data \in UpdateData :
                         item_api(r, token, "update", media_id, data, fault)
        \/ \E fault \in CommitFaults : item_api_commit(r, fault)

MediaSpec == MediaInit /\ [][MediaNext]_vars

\* the mutating operations alone, handled concurrently, the store raising at
\* any of their steps
AtomicTokens == {t \in tokens : get_jwt_identity(t) = 1}

AtomicNext ==
    \/ Respond
    \/ \E r \in Reqs :
        \/ /\ Worker(r)
           /\ \E username \in {"alice", "carol"}, fault \in Faults :
                 admin_register(r, ADMIN_MASTER_KEY, username, "pw1", fault)
        \/ \E fault \in CommitFaults : admin_register_commit(r, fault)
        \/ /\ Worker(r)
           /\ \E token \in AtomicTokens, fault \in Faults :
                 media_api_post(r, token, Data(<<"a">>, "reading", None), fault)
        \/ \E fault \in {"none", "execute"} : media_api_insert(r, fault)
        \/ \E fault \in CommitFaults : media_api_commit(r, fault)
        \/ /\ Worker(r)
           /\ \E token \in AtomicTokens, media_id \in MediaIds,
                 fault \in Faults :
                 \/ item_api(r, token, "delete", media_id, NoData, fault)
                 \/ item_api(r, token, "update", media_id,
                             Data(<<"b">>, "done", "12"), fault)
        \/ \E fault \in CommitFaults : item_api_commit(r, fault)

AtomicSpec == MediaInit /\ [][AtomicNext]_vars

\* one request at a time, no store fault: the catalog's results on titles and
\* queries that hold letters of both cases and the characters LIKE reads
Chars == {"a", "B", "_", "%", "\\"}

Strings(n) == UNION {[1..k -> Chars] : k \in 0..n}

SeqTitles == {<<"a">>, <<"A", "b">>, <<"%">>, <<"b", "_">>}

SeqData == {Data(t, "reading", None) : t \in SeqTitles}

SeqNext ==
    \/ Respond
    \/ Tick
    \/ /\ Worker(1)
       /\ \E token \in TokenInputs, q \in Strings(MaxQueryLen) :
             media_api_get(1, token, q, "none")
    \/ /\ Worker(1)
       /\ \E token \in TokenInputs, data \in SeqData :
             media_api_post(1, token, data, "none")
    \/ media_api_insert(1, "none")
    \/ media_api_commit(1, "none")
    \/ /\ Worker(1)
       /\ \E token \in TokenInputs, media_id \in MediaIds :
             \/ item_api(1, token, "delete", media_id, NoData, "none")
             \/ \E data \in SeqData :
                   item_api(1, token, "update", media_id, data, "none")
    \/ item_api_commit(1, "none")

SeqSpec == MediaInit /\ [][SeqNext]_vars

-----------------------------------------------------------------------------
(* Properties *)

Caller == get_jwt_identity(finished.req.token)

Authorized == jwt_required(finished.req.token)

OwnedBy(rows, user_id) == {m \in rows : m.user_id = user_id}

\* the request in slot r finishes with this step at its commit
Commits(r) == pc[r] = "commit" /\ pc'[r] = "idle"

C1_ResponsesOwn ==
    /\ \A i \in 1..Len(finished.resp.data) :
          finished.resp.data[i].user_id = Caller
    /\ ~Authorized => finished.resp.data = <<>>

C1_Step ==
    \A b \in 1..MaxUserId :
        OwnedBy(media_items', b) # OwnedBy(media_items, b)
            => \E r \in Reqs : /\ Commits(r)
                               /\ jwt_required(req[r].token)
                               /\ get_jwt_identity(req[r].token) = b

\* C1: tenant isolation. Whatever requests are made and however they
\* interleave, a response holds only rows whose user_id is the identity of the
\* token the request carried, and the rows owned by a user change only in the
\* commit of a request that carried a verified token of that same user.
C1_TenantIsolation == []C1_ResponsesOwn /\ [][C1_Step]_vars

\* C1 witness: user A's update of an id that another user owns has finished,
\* and that user's row is still there
C1_Witness ==
    /\ finished.req.op = "update"
    /\ Authorized
    /\ \E m \in media_items :
          m.media_id = finished.req.media_id /\ m.user_id # Caller

\* C2: in every reachable state no two distinct media rows have the same
\* owner and the same title.
C2_TitleUnique ==
    \A m1, m2 \in media_items :
        (m1.user_id = m2.user_id /\ m1.title = m2.title) => m1 = m2

BadKeyRegistration ==
    finished.req.op = "register" /\ finished.req.key # ADMIN_MASTER_KEY

\* C3: a registration whose admin key is not the configured key is answered
\* 403 Forbidden whatever its payload, opens no connection, is never taken
\* further by the handler, and leaves the users unchanged.
C3_BadKeyForbidden ==
    /\ [](\A r \in Reqs : req[r].op = "register"
                             => req[r].key = ADMIN_MASTER_KEY)
    /\ [][BadKeyRegistration'
            => /\ finished'.resp = Response(403, "Forbidden")
               /\ finished'.conn = "none"
               /\ users' = users]_vars

\* C3 witness: a registration with a wrong key and an otherwise valid payload
\* that names an existing user has been answered
C3_Witness ==
    /\ BadKeyRegistration
    /\ Truthy(finished.req.password) /\ IsText(finished.req.password)
    /\ \E u \in users : u.username = finished.req.username

C4_UsernameUnique ==
    \A u1, u2 \in users : u1.username = u2.username => u1 = u2

\* a registration that passed the checks of the request and met no fault
ProperRegistration ==
    /\ finished.req.op = "register"
    /\ RegisterPrecheck(finished.req.key, finished.req.username,
                        finished.req.password) = 0
    /\ IsText(finished.req.password)
    /\ finished.req.fault = "none"

C4_Step ==
    /\ users \subseteq users'
    /\ ProperRegistration' =>
          IF \E u \in users : u.username = finished'.req.username
          THEN finished'.resp.code = 409 /\ users' = users
          ELSE /\ finished'.resp.code = 201
               /\ \E u \in users' \ users :
                    /\ users' = users \cup {u}
                    /\ u.username = finished'.req.username
                    /\ check_password_hash(u.password_hash,
                                           finished'.req.password)
                    /\ \A o \in users : o.user_id # u.user_id

\* C4: at most one user row has a given username; a stored row is never
\* changed or removed; a registration with the right key and non-empty text
\* credentials that meets no store fault is answered 201 and stores exactly
\* one new row (fresh user_id, hash of the given password) when no row has
\* the username, and 409 with the users unchanged when one has.
C4_RegisterOnce == []C4_UsernameUnique /\ [][C4_Step]_vars

\* C4 witness: a second registration of a username was answered 409
C4_Witness ==
    /\ ProperRegistration
    /\ finished.resp.code = 409
    /\ \E u \in users : u.username = finished.req.username

\* the rows whose username and password are those of the login just finished
Verified ==
    {u \in users : /\ u.username = finished.req.username
                   /\ check_password_hash(u.password_hash,
                                          finished.req.password)}

ItemRequest ==
    finished.req.op \in {"delete", "update"} /\ Authorized

\* C6: one request at a time, an update or delete whose media_id names no row
\* of the caller (no such id, or a row of another user) is answered with the
\* one 404 of its method and leaves the rows unchanged, so the same request
\* repeated meets the same rows and the same answer.
C6_NotFoundStable ==
    [][(/\ ItemRequest'
        /\ ~\E m \in media_items :
              /\ m.media_id = finished'.req.media_id
              /\ m.user_id = get_jwt_identity(finished'.req.token))
         => /\ finished'.resp = NotFound(finished'.req.op)
            /\ media_items' = media_items]_vars

\* C6 witness: a delete of an id that another user owns was answered 404
C6_Witness ==
    /\ finished.req.op = "delete"
    /\ Authorized
    /\ finished.resp.code = 404
    /\ \E m \in media_items : m.media_id = finished.req.media_id

CreateRequest == finished.req.op = "create" /\ Authorized

\* C7: one request at a time, a create by user U with title t is answered 409
\* and inserts nothing when U owns a row titled t; otherwise it is answered
\* 201 and inserts exactly one row, owned by U, titled t, whose media_id no
\* earlier row has and which the response returns. Rows of other users
\* titled t play no part.
C7_Create ==
    [][CreateRequest' =>
         LET U == get_jwt_identity(finished'.req.token)
             t == finished'.req.data.title
         IN
         IF \E m \in media_items : m.user_id = U /\ m.title = t
         THEN finished'.resp.code = 409 /\ media_items' = media_items
         ELSE /\ finished'.resp.code = 201
              /\ \E m \in media_items' \ media_items :
                    /\ media_items' = media_items \cup {m}
                    /\ m.user_id = U
                    /\ m.title = t
                    /\ m.media_id = finished'.resp.media_id
                    /\ \A o \in media_items : o.media_id # m.media_id]_vars

\* C7 witness: a create was answered 201 while another user owns a row of
\* the same title
C7_Witness ==
    /\ CreateRequest
    /\ finished.resp.code = 201
    /\ \E m \in media_items :
          m.title = finished.req.data.title /\ m.user_id # Caller

\* q is a substring of title, letter case ignored
Contains(title, q) ==
    \E i \in 0..(Len(title) - Len(q)) :
        \A j \in 1..Len(q) : Lower(title[i + j]) = Lower(q[j])

\* C8: a list/search by user U with query q returns exactly the rows of U
\* whose title contains q as a case-insensitive substring (all of them for
\* an empty q), each once, in descending added_date.
C8_Search ==
    (finished.req.op = "list" /\ finished.resp.code = 200) =>
        LET data == finished.resp.data IN
        /\ {data[i] : i \in 1..Len(data)} =
              {m \in media_items : /\ m.user_id = Caller
                                   /\ Contains(m.title, finished.req.q)}
        /\ \A i, j \in 1..Len(data) :
              i < j => /\ data[i] # data[j]
                       /\ data[i].added_date >= data[j].added_date

\* C9: whatever way a handler is left, the connection it opened is released.
C9_Released == finished.conn # "open"

C10_Invisible ==
    \A r \in Reqs :
        /\ txn[r].kind = "insert_user"
              => ~\E u \in users : u.user_id = txn[r].row.user_id
        /\ txn[r].kind = "insert_media"
              => ~\E m \in media_items : m.media_id = txn[r].row.media_id

C10_Step ==
    /\ finished'.req.fault # "none" => finished'.resp.code = 500
    /\ finished'.resp.code = 500
          => users' = users /\ media_items' = media_items
    /\ (users' # users \/ media_items' # media_items)
          => \E r \in Reqs : /\ Commits(r)
                             /\ txn'[r] = NoTxn
                             /\ finished'.req.fault = "none"
                             /\ finished'.resp.code \in {200, 201}

=============================================================================
